---------------------------- MODULE Spec2Model ----------------------------
(***************************************************************************)
(* A model of gptbots.py: one GPTBot instance (its message buffer, its     *)
(* configuration, the on_ready / on_message / command handlers, the        *)
(* response selector get_ai_response and the scheduler loop                *)
(* send_responses), run by one asyncio event loop.  Every action is the    *)
(* code that runs between two awaits of one coroutine: the event loop can  *)
(* switch coroutines only at an await.                                     *)
(***************************************************************************)
EXTENDS Integers, Sequences, FiniteSets, TLC

(***************************************************************************)
(* Bounds of the model.                                                    *)
(***************************************************************************)
\* Messages ever posted in the channel (commands included).
MaxId == 3
\* Messages posted in the specifications of the selector.
MaxTalk == 2
\* A record is picked by a completion only while the binary exponent of its
\* weight is above -MaxDecay (bounds the decays in the interleaved specs).
MaxDecay == 2
\* Nested get_ai_response frames the interpreter allows before RecursionError
\* (CPython's limit is a runtime setting, about a thousand frames).
MaxDepth == 3
\* Longest buffer the prepare_messages_for_ai specification enumerates.
MaxBuf == 6
\* Messages posted to the channel in the resize specification.
MaxPost == 4

(***************************************************************************)
(* Weights.  A weight is a Python float.  Every weight of the program is a  *)
(* product of the literals 1.0 0.5 1.2 1.4 0.3 (and 0.8 0.7 0.6 0.4 0.0 in  *)
(* the context), so it is kept as m / d * 2^e with m a product of 3s and   *)
(* 7s, d a power of 5: the form is unique, and equality of weights is      *)
(* equality of records.  The rounding of the significand is not modelled;  *)
(* the exponent range is: a product at or below half the smallest positive *)
(* double, 2^-1075, is 0.0 (round to nearest, ties to even).               *)
(***************************************************************************)
\* Exponent of half the smallest positive double (2^-1074 is the smallest).
MinExp == -1075

Zero == [m |-> 0, d |-> 1, e |-> 0]
One == [m |-> 1, d |-> 1, e |-> 0]

RECURSIVE Pow2(_)
Pow2(n) == IF n <= 0 THEN 1 ELSE 2 * Pow2(n - 1)

\* m/d * 2^e <= 2^MinExp, for the m and d the model reaches (below 2^20).
Underflows(w) ==
    LET k == w.e - MinExp
    IN  IF k >= 20 THEN FALSE
        ELSE IF k >= 0 THEN w.m * Pow2(k) <= w.d
        ELSE IF k > -20 THEN w.m <= w.d * Pow2(-k)
        ELSE TRUE

\* The float product a * b.
Mul(a, b) ==
    IF a.m = 0 \/ b.m = 0 THEN Zero
    ELSE LET p == [m |-> a.m * b.m, d |-> a.d * b.d, e |-> a.e + b.e]
         IN  IF Underflows(p) THEN Zero ELSE p

Positive(w) == w.m > 0

\* The float literals of the source.
BaseHuman == One                              \* 1.0
BaseBot == [m |-> 1, d |-> 1, e |-> -1]       \* 0.5
ReplyBoost == [m |-> 3, d |-> 5, e |-> 1]     \* 1.2
MentionBoost == [m |-> 7, d |-> 5, e |-> 0]   \* 1.4
SelectDecay == [m |-> 1, d |-> 1, e |-> -1]   \* 0.5
DispatchDecay == [m |-> 3, d |-> 5, e |-> -1] \* 0.3
Newest1 == [m |-> 1, d |-> 5, e |-> 2]        \* 0.8
Newest2 == [m |-> 7, d |-> 5, e |-> -1]       \* 0.7
Newest3 == [m |-> 3, d |-> 5, e |-> 0]        \* 0.6
Newest4 == [m |-> 1, d |-> 5, e |-> -1]       \* 0.5 (as a context multiplier)
Older == [m |-> 1, d |-> 5, e |-> 1]          \* 0.4

(***************************************************************************)
(* Texts.  A text is a sequence of tokens; " " and "\n" are whitespace,    *)
(* "#" is the command prefix, "@" stands for the mention "<@bot id>", and  *)
(* the two silence sentinels are one token each.                           *)
(***************************************************************************)
IsSpace(c) == c \in {" ", "\n"}

RECURSIVE LStrip(_)
LStrip(t) == IF t # <<>> /\ IsSpace(Head(t)) THEN LStrip(Tail(t)) ELSE t

RECURSIVE RStrip(_)
RStrip(t) ==
    IF t # <<>> /\ IsSpace(t[Len(t)]) THEN RStrip(SubSeq(t, 1, Len(t) - 1)) ELSE t

\* str.strip()
Strip(t) == RStrip(LStrip(t))

\* str.startswith('#')
StartsWithPrefix(t) == t # <<>> /\ t[1] = "#"

\* bot_mention_pattern in content
Mentions(t) == \E i \in 1..Len(t) : t[i] = "@"

(***************************************************************************)
(* Users and raw gateway messages.  "self" is bot.user; "bot" is another   *)
(* automated account; author.bot is true of both.                          *)
(***************************************************************************)
IsBot(u) == u \in {"bot", "self"}

Raw(author, content, reply) ==
    [author |-> author, content |-> content, reply |-> reply]

\* The messages the environment posts: a plain human message, a padded bot
\* reply to a human, a human mention replying to a bot, a command-prefixed
\* message, a message of the bot itself, and a message with no text.
RawMessages ==
    { Raw("human", <<"a">>, "none"),
      Raw("bot", <<" ", "a">>, "human"),
      Raw("human", <<"@", "b">>, "bot"),
      Raw("human", <<"#", "a">>, "none"),
      Raw("self", <<"a">>, "none"),
      Raw("human", <<>>, "none") }

\* The base weight with the reply factor for a reply to anyone.
calculate_base_weight_any_reply(author, replying_to) ==
    LET base_weight == IF IsBot(author) THEN BaseBot ELSE BaseHuman
    IN  IF replying_to # "none"
        THEN Mul(base_weight, ReplyBoost)
        ELSE base_weight

\* Message.calculate_base_weight
calculate_base_weight(author, replying_to) ==
    LET base_weight == IF IsBot(author) THEN BaseBot ELSE BaseHuman
    IN  IF replying_to # "none" /\ ~IsBot(replying_to)
        THEN Mul(base_weight, ReplyBoost)
        ELSE base_weight

\* Message.__init__
Message(author, content, message_id, replying_to) ==
    [author |-> author, message |-> content, message_id |-> message_id,
     replying_to |-> replying_to,
     weight |-> calculate_base_weight(author, replying_to)]


(***************************************************************************)
(* Completion payloads and selector results.                               *)
(***************************************************************************)
\* A value of the "response" field: a string, or a JSON value of another
\* type (null is falsy, a number such as 5 is truthy).
Str(t) == [kind |-> "str", text |-> t, truthy |-> t # <<>>]
Null == [kind |-> "other", text |-> <<>>, truthy |-> FALSE]
Num == [kind |-> "other", text |-> <<>>, truthy |-> TRUE]

\* A value of the "picked_message" slot: None (or absent, or a falsy id), a
\* message id, or the error description get_ai_response puts there.
PNone == [kind |-> "none", id |-> 0, text |-> ""]
PId(n) == [kind |-> "id", id |-> n, text |-> ""]
\* f"OpenAI API Error: {e}", for the exception e
PErr(e) == [kind |-> "error", id |-> 0, text |-> e]

\* What the completion call yields: an exception, a message content that is
\* no JSON, JSON that is no object, or an object; has_response says whether
\* the object has the "response" field.
Failed(kind) ==
    [kind |-> kind, has_response |-> FALSE, response |-> Str(<<>>), picked |-> PNone]
Object(has_response, response, picked) ==
    [kind |-> "object", has_response |-> has_response, response |-> response,
     picked |-> picked]

\* The responses of the completions: an echo of the text "a" up to
\* whitespace, a fresh text, a silence sentinel, null and a number.
Responses == { Str(<<"a", " ">>), Str(<<"c">>), Str(<<" ", "*SILENCE*">>), Null, Num }

Payloads ==
    { Failed("error"), Failed("nonjson"), Failed("nonobject"),
      Object(FALSE, Str(<<>>), PNone) }
    \cup { Object(TRUE, r, p) : r \in Responses,
                                 p \in {PNone} \cup { PId(n) : n \in 1..MaxTalk + 1 } }

NoPayload == Failed("none")

Result(response, picked) == [response |-> response, picked_message |-> picked]
NoResult == Result(Null, [kind |-> "unset", id |-> 0, text |-> ""])
\* {"response": "", "picked_message": err}
FailureResult(e) == Result(Str(<<>>), PErr(e))
\* The exception a completion that is no JSON object ends in.
raised_by(kind) ==
    CASE kind = "error" -> "APIConnectionError"
      [] kind = "nonjson" -> "JSONDecodeError"
      [] OTHER -> "AttributeError"

(***************************************************************************)
(* The state.                                                              *)
(***************************************************************************)
VARIABLES
    channel,             \* the channel's messages, oldest first; the id is the index
    message_array,       \* self.message_array
    MESSAGE_MEMORY,      \* self.MESSAGE_MEMORY
    DEBUG,               \* self.DEBUG
    DELAY_MIN,           \* self.DELAY_MIN
    DELAY_MAX,           \* self.DELAY_MAX
    NIGHT_MODE_ENABLED,  \* self.NIGHT_MODE_ENABLED
    time_remaining,      \* self.time_remaining
    bot_mention_pattern, \* self.bot_mention_pattern is set
    ready_pc,            \* where on_ready is
    fetch_limit,         \* the limit of each update_message_history in flight (0: none)
    sched_pc,            \* where send_responses is
    depth,               \* get_ai_response frames below the scheduler's call
    context,             \* the context of the completion call in flight
    response_data,       \* the completion a get_ai_response frame is processing
    ai_response_json,    \* what get_ai_response returned, until the next step of send_responses
    cycle_start,         \* history: message_array when the selector was invoked, until the response is dispatched and sent
    fifo_from,           \* history: the channel length when the buffer was last emptied, -1 once resized or hydrated
    rejected             \* history: a command has answered "#Invalid ..."

vars ==
    << channel, message_array, MESSAGE_MEMORY, DEBUG, DELAY_MIN, DELAY_MAX,
       NIGHT_MODE_ENABLED, time_remaining, bot_mention_pattern, ready_pc,
       fetch_limit, sched_pc, depth, context, response_data, ai_response_json,
       cycle_start, fifo_from, rejected >>

config == << MESSAGE_MEMORY, DEBUG, DELAY_MIN, DELAY_MAX, NIGHT_MODE_ENABLED >>
sched ==
    << time_remaining, sched_pc, depth, context, response_data, ai_response_json,
       cycle_start >>
startup == << bot_mention_pattern, ready_pc >>

\* GPTBot.__init__
Init ==
    /\ channel = <<>>
    /\ message_array = <<>>
    /\ MESSAGE_MEMORY = 10
    /\ DEBUG = FALSE
    /\ DELAY_MIN = 15
    /\ DELAY_MAX = 25
    /\ NIGHT_MODE_ENABLED = TRUE
    /\ time_remaining = 0
    /\ bot_mention_pattern = FALSE
    /\ ready_pc = "start"
    /\ fetch_limit = [ready |-> 0, resize |-> 0]
    /\ sched_pc = "off"
    /\ depth = 0
    /\ context = <<>>
    /\ response_data = NoPayload
    /\ ai_response_json = NoResult
    /\ cycle_start = <<>>
    /\ fifo_from = 0
    /\ rejected = FALSE

(***************************************************************************)
(* The buffer.                                                             *)
(***************************************************************************)
\* The eviction with > for >=: the buffer grows one past its capacity.
append_evict_late(buf, msg, cap) ==
    IF Len(buf) > cap THEN Append(Tail(buf), msg) ELSE Append(buf, msg)

\* if len(self.message_array) >= self.MESSAGE_MEMORY: pop(0); then append(msg)
append_evict(buf, msg, cap) ==
    IF Len(buf) >= cap THEN Append(Tail(buf), msg) ELSE Append(buf, msg)

\* The condition of on_message's if (the channel is the bot's own).
accepts(raw) == raw.author # "self" /\ ~StartsWithPrefix(raw.content)

\* The record on_message builds, mention adjustment included.
on_message_record(raw, id, pattern) ==
    LET msg == Message(raw.author, raw.content, id, raw.reply)
    IN  IF pattern /\ Mentions(raw.content)
        THEN [msg EXCEPT !.weight = Mul(msg.weight, MentionBoost)]
        ELSE msg

\* next((msg for msg in self.message_array if str(msg.message_id) == str(id)), None):
\* the index of the first match, 0 when there is none.
find_by_id(buf, picked) ==
    LET hits == { i \in 1..Len(buf) : picked.kind = "id" /\ buf[i].message_id = picked.id }
    IN  IF hits = {} THEN 0 ELSE CHOOSE i \in hits : \A j \in hits : i <= j

\* The decay that reaches every record of the buffer.
decay_all(buf, i, factor) ==
    [ j \in 1..Len(buf) |-> [buf[j] EXCEPT !.weight = Mul(buf[j].weight, factor)] ]

\* picked_message.weight *= factor
decay(buf, i, factor) == [buf EXCEPT ![i].weight = Mul(buf[i].weight, factor)]

\* on_message for a message that is no command.
on_message(raw) ==
    LET id == Len(channel) + 1
    IN  /\ channel' = Append(channel, raw)
        /\ message_array' =
               IF accepts(raw)
               THEN append_evict(message_array,
                                 on_message_record(raw, id, bot_mention_pattern),
                                 MESSAGE_MEMORY)
               ELSE message_array
        /\ UNCHANGED << config, sched, startup, fetch_limit, fifo_from,
                    rejected >>

\* The message that carries a command: on_message drops it, process_commands
\* runs the command.
CommandRaw == Raw("human", <<"#", "a">>, "none")

\* #reset_history
reset_history ==
    /\ channel' = Append(channel, CommandRaw)
    /\ message_array' = <<>>
    /\ fifo_from' = Len(channel')
    /\ UNCHANGED << config, sched, startup, fetch_limit, rejected >>

(***************************************************************************)
(* History hydration: update_message_history.                              *)
(***************************************************************************)
Min(a, b) == IF a <= b THEN a ELSE b
Max(a, b) == IF a >= b THEN a ELSE b

RECURSIVE Reverse(_)
\* list.reverse()
Reverse(s) == IF s = <<>> THEN <<>> ELSE Append(Reverse(Tail(s)), Head(s))

\* channel.history(limit=limit): the ids of the newest `limit` messages,
\* newest first.
history(ch, limit) == [ i \in 1..Min(limit, Len(ch)) |-> Len(ch) + 1 - i ]

\* message.content[0] raises IndexError on a message without text.
raises_index_error(ch, ids) == \E i \in 1..Len(ids) : ch[ids[i]].content = <<>>

\* The loop of update_message_history without the test of line 322.
fetch_messages_unfiltered(ch, ids) ==
    [ i \in 1..Len(ids) |->
        Message(ch[ids[i]].author, ch[ids[i]].content, ids[i], ch[ids[i]].reply) ]

RECURSIVE fetch_messages(_, _)
\* The loop body of update_message_history over the fetched ids, in order.
fetch_messages(ch, ids) ==
    IF ids = <<>> THEN <<>>
    ELSE LET id == Head(ids)
             raw == ch[id]
             rest == fetch_messages(ch, Tail(ids))
         IN  IF raw.content[1] # "#" /\ raw.author # "self"
             THEN << Message(raw.author, raw.content, id, raw.reply) >> \o rest
             ELSE rest

\* What update_message_history leaves in message_array: the fetch may fail
\* (ok is false) or the loop may raise; the except clause then keeps the
\* buffer as it was.
update_message_history(buf, ch, limit, ok) ==
    LET ids == history(ch, limit)
    IN  IF ~ok \/ raises_index_error(ch, ids) THEN buf
        ELSE Reverse(fetch_messages(ch, ids))

\* The history of the FIFO claim: a run of appends starts whenever the
\* buffer is left empty by something else than an append.
fifo_restart(buf, ch) == IF buf = <<>> THEN Len(ch) ELSE -1

\* #set_memory_size <size>, up to its await of update_message_history.
set_memory_size(size) ==
    /\ channel' = Append(channel, CommandRaw)
    /\ IF size < 1 \/ size > 100
       THEN rejected' = TRUE /\ UNCHANGED << MESSAGE_MEMORY, fetch_limit, fifo_from >>
       ELSE /\ fetch_limit.resize = 0
            /\ UNCHANGED rejected
            /\ MESSAGE_MEMORY' = size
            /\ fetch_limit' = [fetch_limit EXCEPT !.resize = size]
            /\ fifo_from' = fifo_restart(message_array, channel')
    /\ UNCHANGED << message_array, DEBUG, DELAY_MIN, DELAY_MAX, NIGHT_MODE_ENABLED,
                    sched, startup >>

\* The update_message_history that set_memory_size awaits completes.
set_memory_size_fetched(ok) ==
    /\ fetch_limit.resize > 0
    /\ message_array' =
           update_message_history(message_array, channel, fetch_limit.resize, ok)
    /\ fetch_limit' = [fetch_limit EXCEPT !.resize = 0]
    /\ fifo_from' = fifo_restart(message_array', channel)
    /\ UNCHANGED << channel, config, sched, startup, rejected >>

\* #debug <value>
set_debug(value) ==
    /\ channel' = Append(channel, CommandRaw)
    /\ DEBUG' = IF value \in {"true", "false"} THEN value = "true" ELSE DEBUG
    /\ rejected' = (rejected \/ value \notin {"true", "false"})
    /\ UNCHANGED << message_array, MESSAGE_MEMORY, DELAY_MIN, DELAY_MAX,
                    NIGHT_MODE_ENABLED, sched, startup, fetch_limit, fifo_from >>

\* The validation of set_delay with > for >=.
set_delay_lax(min_delay, max_delay) ==
    /\ channel' = Append(channel, CommandRaw)
    /\ IF min_delay < 1 \/ max_delay > 60 \/ min_delay > max_delay
       THEN rejected' = TRUE /\ UNCHANGED << DELAY_MIN, DELAY_MAX >>
       ELSE DELAY_MIN' = min_delay /\ DELAY_MAX' = max_delay /\ UNCHANGED rejected
    /\ UNCHANGED << message_array, MESSAGE_MEMORY, DEBUG, NIGHT_MODE_ENABLED,
                    sched, startup, fetch_limit, fifo_from >>

\* #set_delay <min_delay> <max_delay>
set_delay(min_delay, max_delay) ==
    /\ channel' = Append(channel, CommandRaw)
    /\ IF min_delay < 1 \/ max_delay > 60 \/ min_delay >= max_delay
       THEN rejected' = TRUE /\ UNCHANGED << DELAY_MIN, DELAY_MAX >>
       ELSE DELAY_MIN' = min_delay /\ DELAY_MAX' = max_delay /\ UNCHANGED rejected
    /\ UNCHANGED << message_array, MESSAGE_MEMORY, DEBUG, NIGHT_MODE_ENABLED,
                    sched, startup, fetch_limit, fifo_from >>

\* #night_mode <value>
set_night_mode(value) ==
    /\ channel' = Append(channel, CommandRaw)
    /\ NIGHT_MODE_ENABLED' =
           IF value \in {"true", "false"} THEN value = "true" ELSE NIGHT_MODE_ENABLED
    /\ rejected' = (rejected \/ value \notin {"true", "false"})
    /\ UNCHANGED << message_array, MESSAGE_MEMORY, DEBUG, DELAY_MIN, DELAY_MAX,
                    sched, startup, fetch_limit, fifo_from >>

(***************************************************************************)
(* Startup: on_ready.                                                      *)
(***************************************************************************)
\* on_ready up to its await of wait_for(update_message_history, timeout=20).
on_ready ==
    /\ ready_pc = "start"
    /\ ready_pc' = "history"
    /\ fetch_limit' = [fetch_limit EXCEPT !.ready = MESSAGE_MEMORY]
    /\ UNCHANGED << channel, message_array, config, sched, bot_mention_pattern,
                    fifo_from, rejected >>

\* The prefetch ends: it completed ("ok"), it failed inside
\* update_message_history ("error"), or wait_for cancelled it ("timeout"),
\* which raises TimeoutError into on_ready's except clause.
on_ready_fetched(outcome) ==
    /\ ready_pc = "history"
    /\ fetch_limit' = [fetch_limit EXCEPT !.ready = 0]
    /\ IF outcome = "timeout"
       THEN /\ ready_pc' = "failed"
            /\ UNCHANGED << message_array, fifo_from >>
       ELSE /\ ready_pc' = "status"
            /\ message_array' =
                   update_message_history(message_array, channel, fetch_limit.ready,
                                          outcome = "ok")
            /\ fifo_from' = fifo_restart(message_array', channel)
    /\ UNCHANGED << channel, config, sched, bot_mention_pattern, rejected >>

\* on_ready's update_status ends: on success the scheduler task is created
\* and the mention pattern is set; a failure ends on_ready in its except.
on_ready_status(ok) ==
    /\ ready_pc = "status"
    /\ IF ok
       THEN /\ ready_pc' = "done"
            /\ sched_pc' = "new"
            /\ bot_mention_pattern' = TRUE
       ELSE /\ ready_pc' = "failed"
            /\ UNCHANGED << sched_pc, bot_mention_pattern >>
    /\ UNCHANGED << channel, message_array, config, time_remaining, depth,
                    context, response_data, ai_response_json, cycle_start,
                    fetch_limit, fifo_from, rejected >>

(***************************************************************************)
(* The response selector: get_ai_response.                                 *)
(***************************************************************************)
\* The multipliers with the positions counted one off: the newest record is
\* taken for an older one.
weight_multiplier_shifted(author, idx, n) ==
    IF author = "self" THEN Zero
    ELSE IF idx = n - 1 THEN Newest1
    ELSE IF idx = n - 2 THEN Newest2
    ELSE IF idx = n - 3 THEN Newest3
    ELSE IF idx = n - 4 THEN Newest4
    ELSE Older

\* The multiplier prepare_messages_for_ai gives the record at index idx
\* (from 1) of a buffer of length n.
weight_multiplier(author, idx, n) ==
    IF author = "self" THEN Zero
    ELSE IF idx = n THEN Newest1
    ELSE IF idx = n - 1 THEN Newest2
    ELSE IF idx = n - 2 THEN Newest3
    ELSE IF idx = n - 3 THEN Newest4
    ELSE Older

\* prepare_messages_for_ai: the list that is serialised, one dict per record.
prepare_messages_for_ai(buf) ==
    [ idx \in 1..Len(buf) |->
        [buf[idx] EXCEPT
            !.weight = Mul(buf[idx].weight,
                           weight_multiplier(buf[idx].author, idx, Len(buf)))] ]

\* The echo test without the two .strip() calls.
is_echo_untrimmed(text, buf, i) ==
    \/ text = buf[i].message
    \/ \E j \in 1..Len(buf) : text = buf[j].message

\* generated_response.strip() == picked_message.message.strip() or
\* any(generated_response.strip() == msg.message.strip() for msg in message_array)
is_echo(text, buf, i) ==
    \/ Strip(text) = Strip(buf[i].message)
    \/ \E j \in 1..Len(buf) : Strip(text) = Strip(buf[j].message)

\* One frame of get_ai_response from the completion's arrival on: the buffer
\* it leaves, whether it calls itself again, and otherwise what it returns.
\* d is the number of frames below it; the frame that would exceed the
\* interpreter's limit gets RecursionError, which the except clause turns
\* into the failure result.
get_ai_response(buf, p, d) ==
    IF p.kind # "object"
    THEN [buf |-> buf, again |-> FALSE, result |-> FailureResult(raised_by(p.kind))]
    ELSE LET generated_response == IF p.has_response THEN p.response ELSE Str(<<>>)
             picked_message_id == p.picked
             i == find_by_id(buf, picked_message_id)
             decayed == decay(buf, i, SelectDecay)
             returned == Result(generated_response, picked_message_id)
         IN  IF picked_message_id.kind = "none" \/ i = 0
             THEN [buf |-> buf, again |-> FALSE, result |-> returned]
             ELSE IF generated_response.kind # "str"
             THEN [buf |-> decayed, again |-> FALSE,
                   result |-> FailureResult("AttributeError")]
             ELSE IF ~is_echo(generated_response.text, decayed, i)
             THEN [buf |-> decayed, again |-> FALSE, result |-> returned]
             ELSE IF d + 1 < MaxDepth
             THEN [buf |-> decayed, again |-> TRUE, result |-> NoResult]
             ELSE [buf |-> decayed, again |-> FALSE,
                   result |-> FailureResult("RecursionError")]

(***************************************************************************)
(* The scheduler: send_responses and countdown_status.                     *)
(***************************************************************************)
NIGHT_DELAY_MIN == 40
NIGHT_DELAY_MAX == 60

\* The list without "*END OF CONVERSATION*".
SilenceSentinels_short == { <<"*SILENCE*">>, <<>>, <<"\n">> }

\* The list send_responses tests the trimmed response against.
SilenceSentinels == { <<"*SILENCE*">>, <<"*END OF CONVERSATION*">>, <<>>, <<"\n">> }

\* The dispatch without line 350's decay.
dispatch_undecayed(buf, r) ==
    IF r.response.kind # "str"
    THEN [buf |-> buf, does |-> IF r.response.truthy THEN "raise" ELSE "silent"]
    ELSE IF r.response.truthy /\ Strip(r.response.text) \notin SilenceSentinels
    THEN [buf |-> buf, does |-> "send"]
    ELSE [buf |-> buf, does |-> "silent"]

\* send_responses from the selector's return to its first await: "raise"
\* when .strip() is called on a response that is no string, "send" with the
\* buffer after the dispatch decay, or "silent".
dispatch(buf, r) ==
    IF r.response.kind # "str"
    THEN [buf |-> buf, does |-> IF r.response.truthy THEN "raise" ELSE "silent"]
    ELSE IF r.response.truthy /\ Strip(r.response.text) \notin SilenceSentinels
    THEN LET i == find_by_id(buf, r.picked_message)
         IN  [buf |-> IF r.picked_message.kind # "none" /\ i # 0
                      THEN decay(buf, i, DispatchDecay)
                      ELSE buf,
              does |-> "send"]
    ELSE [buf |-> buf, does |-> "silent"]

\* is_night_time, for the hour the local clock shows.
is_night_time(current_hour) == 2 <= current_hour /\ current_hour < 8

\* random.randint(a, b)
randint(a, b) == a..b

\* The delays the scheduler may draw when the clock shows `hour`.
delays(hour) ==
    IF NIGHT_MODE_ENABLED /\ is_night_time(hour)
    THEN randint(NIGHT_DELAY_MIN, NIGHT_DELAY_MAX)
    ELSE randint(DELAY_MIN, DELAY_MAX)

\* Of a range of delays, the draws a specification enumerates: its least
\* ("min") and its greatest ("max") element, as `ends` says.
Drawn(range, ends) ==
    { d \in range : \/ "min" \in ends /\ \A x \in range : d <= x
                    \/ "max" \in ends /\ \A x \in range : d >= x }

\* The body of the while loop starts over: send_responses calls
\* get_ai_response(self.message_array), which runs to its await of the
\* completion call.
invoke(buf) ==
    /\ sched_pc' = "call"
    /\ depth' = 0
    /\ context' = prepare_messages_for_ai(buf)
    /\ response_data' = NoPayload
    /\ cycle_start' = buf

\* The delay is drawn and countdown_status runs to its first await.
\* `hour` is what the clock shows and `delay` what random.randint returns.
draw_delay(hour, delay) ==
    /\ delay \in delays(hour)
    /\ time_remaining' = delay
    /\ sched_pc' = IF delay > 0 THEN "status" ELSE "final"
    /\ depth' = 0
    /\ context' = <<>>
    /\ response_data' = NoPayload
    /\ cycle_start' = <<>>

\* The task created by on_ready starts running send_responses.
send_responses ==
    /\ sched_pc = "new"
    /\ invoke(message_array)
    /\ UNCHANGED << channel, message_array, config, time_remaining,
                    ai_response_json, startup, fetch_limit, fifo_from,
                    rejected >>

\* The completion call ends; p is what it yields.
completion_arrives(p) ==
    /\ sched_pc = "call"
    /\ sched_pc' = "got"
    /\ response_data' = p
    /\ ai_response_json' = NoResult
    /\ UNCHANGED << channel, message_array, config, time_remaining, depth,
                    context, cycle_start, startup, fetch_limit, fifo_from,
                    rejected >>

\* get_ai_response processes the completion: it regenerates, or it returns
\* and send_responses runs on to its next await (the send, the countdown's
\* first status update) or, on an exception, to the next completion call.
selector_returns(hour, delay) ==
    /\ sched_pc = "got"
    /\ LET g == get_ai_response(message_array, response_data, depth)
           s == dispatch(g.buf, g.result)
       IN  IF g.again
           THEN /\ message_array' = g.buf
                /\ sched_pc' = "call"
                /\ depth' = depth + 1
                /\ context' = prepare_messages_for_ai(g.buf)
                /\ response_data' = NoPayload
                /\ UNCHANGED << time_remaining, ai_response_json, cycle_start >>
           ELSE /\ message_array' = s.buf
                /\ ai_response_json' = g.result
                /\ CASE s.does = "raise" ->
                            invoke(s.buf) /\ UNCHANGED time_remaining
                     [] s.does = "send" ->
                            /\ sched_pc' = "send"
                            /\ depth' = 0
                            /\ context' = <<>>
                            /\ response_data' = NoPayload
                            /\ UNCHANGED << time_remaining, cycle_start >>
                     [] OTHER -> draw_delay(hour, delay)
    /\ UNCHANGED << channel, config, startup, fetch_limit, fifo_from,
                    rejected >>

\* channel.send of the response ends.
response_sent(ok, hour, delay) ==
    /\ sched_pc = "send"
    /\ IF ~ok THEN invoke(message_array) /\ UNCHANGED time_remaining
       ELSE IF DEBUG
       THEN /\ sched_pc' = "debug"
            /\ cycle_start' = <<>>
            /\ UNCHANGED << time_remaining, depth, context, response_data >>
       ELSE draw_delay(hour, delay)
    /\ ai_response_json' = NoResult
    /\ UNCHANGED << channel, message_array, config, startup, fetch_limit, fifo_from,
                    rejected >>

\* channel.send of the debug context ends.
debug_sent(ok, hour, delay) ==
    /\ sched_pc = "debug"
    /\ IF ok THEN draw_delay(hour, delay) ELSE invoke(message_array) /\ UNCHANGED time_remaining
    /\ UNCHANGED << channel, message_array, config, ai_response_json, startup,
                    fetch_limit, fifo_from, rejected >>

\* countdown_status: update_status inside the loop ends.
status_updated(ok) ==
    /\ sched_pc = "status"
    /\ IF ok
       THEN /\ sched_pc' = "sleep"
            /\ UNCHANGED << depth, context, response_data, cycle_start >>
       ELSE invoke(message_array)
    /\ ai_response_json' = NoResult
    /\ UNCHANGED << channel, message_array, config, time_remaining, startup,
                    fetch_limit, fifo_from, rejected >>

\* countdown_status: asyncio.sleep(3) ends.
slept ==
    /\ sched_pc = "sleep"
    /\ time_remaining' = Max(0, time_remaining - 3)
    /\ sched_pc' = IF time_remaining' > 0 THEN "status" ELSE "final"
    /\ UNCHANGED << channel, message_array, config, depth, context, response_data,
                    ai_response_json, cycle_start, startup, fetch_limit, fifo_from,
                    rejected >>

\* countdown_status: the update_status after the loop ends, either way the
\* while loop of send_responses starts over.
countdown_done(ok) ==
    /\ sched_pc = "final"
    /\ invoke(message_array)
    /\ UNCHANGED << channel, message_array, config, time_remaining,
                    ai_response_json, startup, fetch_limit, fifo_from,
                    rejected >>

(***************************************************************************)
(* Specifications.  Each one runs the handlers above against an            *)
(* environment that draws their inputs from the sets named in it.          *)
(***************************************************************************)
\* The inputs of the commands: valid and rejected ones.
Sizes == {0, 1, 2, 101}
DelayRanges == { <<1, 4>>, <<59, 60>>, <<0, 5>>, <<5, 61>>, <<3, 3>>, <<4, 2>> }
Flags == {"true", "false", "maybe"}
Outcomes == {"ok", "error", "timeout"}
Hours == {1, 2, 7, 8}
Noon == {12}

\* The channel takes another message.
Posting == Len(channel) < MaxId
Talking == Len(channel) < MaxTalk

\* The bound on decays: a completion picks a record of the buffer only while
\* its weight's exponent is above -MaxDecay.
Pickable(p) ==
    LET i == find_by_id(message_array, p.picked)
    IN  i # 0 => message_array[i].weight.e > -MaxDecay

Messaging(raws) ==
    \/ Posting /\ \E raw \in raws : on_message(raw)
    \/ Posting /\ reset_history
    \/ Posting /\ \E size \in Sizes : set_memory_size(size)
    \/ \E ok \in BOOLEAN : set_memory_size_fetched(ok)

Admin ==
    \/ Posting /\ \E value \in Flags : set_debug(value)
    \/ Posting /\ \E r \in DelayRanges : set_delay(r[1], r[2])
    \/ Posting /\ \E value \in Flags : set_night_mode(value)

Startup ==
    \/ on_ready
    \/ \E outcome \in Outcomes : on_ready_fetched(outcome)
    \/ \E ok \in BOOLEAN : on_ready_status(ok)

\* The payloads among `payloads` that keep within the bound on decays.
Bounded(payloads) == { p \in payloads : Pickable(p) }

\* The scheduler task against a completion service that yields `payloads`,
\* a clock that shows `hours` and a random source that draws `ends`.
Cycle(payloads, hours, ends) ==
    \/ send_responses
    \/ \E p \in payloads : completion_arrives(p)
    \/ \E hour \in hours : \E delay \in Drawn(delays(hour), ends) :
           selector_returns(hour, delay)
    \/ \E hour \in hours : \E delay \in Drawn(delays(hour), ends) :
           \E ok \in BOOLEAN : response_sent(ok, hour, delay)
    \/ \E ok \in BOOLEAN : status_updated(ok)
    \/ slept
    \/ \E ok \in BOOLEAN : countdown_done(ok)

DebugEcho(hours, ends) ==
    \E hour \in hours : \E delay \in Drawn(delays(hour), ends) :
        \E ok \in BOOLEAN : debug_sent(ok, hour, delay)

\* The completions of the buffer specification: a transport error and a
\* reply that picks nothing.
FewPayloads == { Failed("error"), Object(TRUE, Str(<<"c">>), PNone) }

\* The messages of the buffer specification.
FewMessages == { raw \in RawMessages : raw.reply = "none" }

\* The buffer under messages, resets, resizes, startup and scheduler cycles.
Next ==
    \/ Messaging(FewMessages)
    \/ Startup
    \/ Cycle(FewPayloads, Noon, {"min"})

Spec == Init /\ [][Next]_vars

\* The messages of the selector specification: the ones on_message accepts
\* that have a text.
TextMessages == { raw \in RawMessages : accepts(raw) /\ raw.content # <<>> }

\* The selector and the dispatch under every completion, with messages
\* arriving.
NextSelector ==
    \/ Talking /\ \E raw \in TextMessages : on_message(raw)
    \/ Startup
    \/ Cycle(Bounded(Payloads), Noon, {"min"})

SpecSelector == Init /\ [][NextSelector]_vars

\* The records the buffers of the prepare specification are made of: by a
\* human, by another bot in reply to a human, by the bot itself, and by a
\* human after one selection decay.
StoredRecords ==
    { Message("human", <<"a">>, 0, "none"),
      Message("bot", <<"a">>, 0, "human"),
      Message("self", <<"a">>, 0, "none"),
      [Message("human", <<"c">>, 0, "none") EXCEPT !.weight = Mul(One, SelectDecay)] }

\* Every buffer of up to MaxBuf such records, the ids in order.
Buffers ==
    UNION { { [ i \in 1..n |-> [f[i] EXCEPT !.message_id = i] ] :
                f \in [1..n -> StoredRecords] } : n \in 0..MaxBuf }

\* prepare_messages_for_ai as a function of the buffer: the scheduler is
\* about to make its first call over any of the buffers.
InitPrepare ==
    /\ channel = <<>>
    /\ message_array \in Buffers
    /\ MESSAGE_MEMORY = 10
    /\ DEBUG = FALSE
    /\ DELAY_MIN = 15
    /\ DELAY_MAX = 25
    /\ NIGHT_MODE_ENABLED = TRUE
    /\ time_remaining = 0
    /\ bot_mention_pattern = TRUE
    /\ ready_pc = "done"
    /\ fetch_limit = [ready |-> 0, resize |-> 0]
    /\ sched_pc = "new"
    /\ depth = 0
    /\ context = <<>>
    /\ response_data = NoPayload
    /\ ai_response_json = NoResult
    /\ cycle_start = <<>>
    /\ fifo_from = -1
    /\ rejected = FALSE

NextPrepare == send_responses

SpecPrepare == InitPrepare /\ [][NextPrepare]_vars

\* The completions of the decay specification: silence about the first
\* message, and a reply that picks nothing.
QuietPayloads ==
    { Object(TRUE, Str(<<" ", "*SILENCE*">>), PId(1)),
      Object(TRUE, Str(<<"c">>), PNone) }

\* One message and any number of cycles that pick it and stay silent.
NextDecay ==
    \/ channel = <<>> /\ on_message(Raw("human", <<"a">>, "none"))
    \/ Startup
    \/ Cycle(QuietPayloads, Noon, {"min"})

SpecDecay == Init /\ [][NextDecay]_vars

\* The buffer under messages and resizes alone, for a channel of up to
\* MaxPost messages.
NextResize ==
    \/ Len(channel) < MaxPost /\ \E raw \in FewMessages : on_message(raw)
    \/ Len(channel) < MaxPost /\ \E size \in Sizes : set_memory_size(size)
    \/ \E ok \in BOOLEAN : set_memory_size_fetched(ok)

SpecResize == Init /\ [][NextResize]_vars

\* The commands, valid and rejected, with messages arriving in between.
NextAdmin ==
    \/ Len(channel) < MaxPost /\ \E raw \in FewMessages : on_message(raw)
    \/ Len(channel) < MaxPost /\ \E size \in Sizes : set_memory_size(size)
    \/ \E ok \in BOOLEAN : set_memory_size_fetched(ok)
    \/ Len(channel) < MaxPost /\ \E value \in Flags : set_debug(value)
    \/ Len(channel) < MaxPost /\ \E r \in DelayRanges : set_delay(r[1], r[2])
    \/ Len(channel) < MaxPost /\ \E value \in Flags : set_night_mode(value)

SpecAdmin == Init /\ [][NextAdmin]_vars

\* The responses of the dispatch specification: texts, sentinels with and
\* without whitespace around them, a sentinel inside a text, texts of
\* whitespace only, the empty text, null and a number.
DispatchResponses ==
    { Str(<<"c">>), Str(<<" ", "c", "\n">>),
      Str(<<"*SILENCE*">>), Str(<<" ", "*SILENCE*", "\n">>),
      Str(<<"*END OF CONVERSATION*", " ">>), Str(<<"*SILENCE*", "c">>),
      Str(<<>>), Str(<<"\n">>), Str(<<" ">>), Null, Num }

DispatchPayloads ==
    { Failed("error"), Failed("nonjson") }
    \cup { Object(TRUE, r, p) : r \in DispatchResponses, p \in {PNone, PId(1)} }

\* One message and scheduler cycles over every kind of response.
NextDispatch ==
    \/ channel = <<>> /\ on_message(Raw("human", <<"a">>, "none"))
    \/ Startup
    \/ Cycle(Bounded(DispatchPayloads), Noon, {"min"})

SpecDispatch == Init /\ [][NextDispatch]_vars

\* The messages of the append specification: every author, with a plain
\* text, a mention of the bot or a command prefix, replying to nobody, to
\* a human, to another bot or to the bot itself.
AppendMessages ==
    { Raw(author, content, reply) :
        author \in {"human", "bot", "self"},
        content \in { <<"a">>, <<"@", "b">>, <<"#", "@">> },
        reply \in {"none", "human", "bot", "self"} }

\* Messages arriving before, during and after startup.
NextAppend ==
    \/ Talking /\ \E raw \in AppendMessages : on_message(raw)
    \/ Startup

SpecAppend == Init /\ [][NextAppend]_vars

(***************************************************************************)
(* The buffer's capacity.                                                  *)
(***************************************************************************)
\* C1 (capacity bound): the buffer is never longer than MESSAGE_MEMORY; it
\* is stated here for the states in which no history fetch is pending, the
\* states most favourable to it.
C1_CapacityBound ==
    (fetch_limit.resize = 0 /\ fetch_limit.ready = 0)
        => Len(message_array) <= MESSAGE_MEMORY

\* The ids of the messages on_message accepted after the first `from`
\* messages of the channel, oldest first.
RECURSIVE AcceptedFrom(_, _)
AcceptedFrom(ch, from) ==
    IF from >= Len(ch) THEN <<>>
    ELSE (IF accepts(ch[from + 1]) THEN << from + 1 >> ELSE <<>>)
         \o AcceptedFrom(ch, from + 1)

LastN(s, n) == SubSeq(s, Len(s) - Min(n, Len(s)) + 1, Len(s))

C3_EmissionFailureStillDelays ==
    [][(sched_pc \in {"send", "debug"}) => (sched_pc' # "call")]_vars

\* The completion is no JSON object with a string in "response".
Malformed(p) == p.kind # "object" \/ ~p.has_response \/ p.response.kind # "str"

\* C4 (selector failure sentinel): when the completion call fails or yields
\* a payload that is no object with the expected fields, get_ai_response
\* returns the empty response with the error description in the
\* picked_message slot.
C4_FailureSentinel ==
    [][(sched_pc = "got" /\ sched_pc' # "got" /\ Malformed(response_data))
          => /\ ai_response_json'.response = Str(<<>>)
             /\ ai_response_json'.picked_message.kind = "error"]_vars

\* C5 (no echo is returned): a result returned with a picked_message id
\* that resolves in the buffer has a response that, trimmed, differs from
\* the trimmed text of every record of the buffer; and a completion that
\* echoes a record is not returned: the call is made again (as long as the
\* interpreter lets get_ai_response call itself).
C5_NoEchoReturned ==
    [][(sched_pc = "got" /\ sched_pc' # "got") =>
          LET r == ai_response_json'
              i == find_by_id(message_array', r.picked_message)
              k == find_by_id(message_array, response_data.picked)
          IN  /\ (r # NoResult /\ i # 0) =>
                     /\ r.response.kind = "str"
                     /\ \A j \in 1..Len(message_array') :
                            Strip(r.response.text) # Strip(message_array'[j].message)
              /\ ( /\ response_data.kind = "object"
                   /\ response_data.response.kind = "str"
                   /\ k # 0
                   /\ \E j \in 1..Len(message_array) :
                          Strip(response_data.response.text)
                              = Strip(message_array[j].message)
                   /\ depth + 1 < MaxDepth )
                 => /\ sched_pc' = "call"
                    /\ depth' = depth + 1
                    /\ ai_response_json' = NoResult]_vars

\* A reply to a record is being sent while another record's text is what
\* the echoing completions repeat.
C5_Witness ==
    /\ sched_pc = "send"
    /\ find_by_id(message_array, ai_response_json.picked_message) # 0
    /\ ai_response_json.response = Str(<<"c">>)
    /\ \E j \in 1..Len(message_array) : Strip(message_array[j].message) = <<"a">>

\* C6 (bounded regeneration): get_ai_response stops regenerating by a bound
\* of its own and falls back to silence: no invocation regenerates until
\* the interpreter's recursion limit ends it with RecursionError.
C6_BoundedRegeneration ==
    ai_response_json.picked_message.text # "RecursionError"

\* C7 (two-stage decay compounds to x0.15): while the reply to a picked
\* record is being sent, the record's weight is 0.5 * 0.3 times the weight
\* it had when the cycle started.
C7_TwoStageDecay ==
    \A i \in 1..Len(message_array) : \A j \in 1..Len(cycle_start) :
        ( /\ sched_pc = "send"
          /\ i = find_by_id(message_array, ai_response_json.picked_message)
          /\ j = find_by_id(cycle_start, ai_response_json.picked_message) )
        => message_array[i].weight
               = Mul(Mul(cycle_start[j].weight, SelectDecay), DispatchDecay)

\* C7, amended: the step that processes the cycle's last completion and
\* starts sending the reply to a picked record leaves that record's weight
\* at 0.5 * 0.3 times the weight it had when this completion arrived.
C7_DecayOfLastCompletion ==
    [][(sched_pc = "got" /\ sched_pc' = "send") =>
          LET i == find_by_id(message_array', ai_response_json'.picked_message)
          IN  i # 0 =>
                  message_array'[i].weight
                      = Mul(Mul(message_array[i].weight, SelectDecay), DispatchDecay)]_vars

\* A reply is being sent to a record that an echoing completion of the
\* same cycle had picked before: two selection decays and the dispatch's.
C7_Witness ==
    \E i \in 1..Len(message_array) : \E j \in 1..Len(cycle_start) :
        /\ sched_pc = "send"
        /\ i = find_by_id(message_array, ai_response_json.picked_message)
        /\ j = find_by_id(cycle_start, ai_response_json.picked_message)
        /\ message_array[i].weight
               = Mul(Mul(Mul(cycle_start[j].weight, SelectDecay), SelectDecay),
                     DispatchDecay)

\* A record but for its weight.
Unweighted(msg) == [msg EXCEPT !.weight = One]

\* C8 (selector frame): while the reply of an invocation is being sent, the
\* records the buffer held when the invocation started are still there in
\* their order, the one the result targets with the weight of one selection
\* decay (and the dispatch's), every other one with the weight it had.
C8_SingleDecay ==
    (sched_pc = "send" /\ cycle_start # <<>>) =>
        /\ Len(message_array) >= Len(cycle_start)
        /\ \A j \in 1..Len(cycle_start) :
               /\ Unweighted(message_array[j]) = Unweighted(cycle_start[j])
               /\ message_array[j].weight =
                      IF j = find_by_id(cycle_start, ai_response_json.picked_message)
                      THEN Mul(Mul(cycle_start[j].weight, SelectDecay), DispatchDecay)
                      ELSE cycle_start[j].weight

\* C8, amended: each completion that get_ai_response processes changes the
\* buffer by one selection decay of the record its picked_message id
\* resolves to (followed by the dispatch's when the reply is sent), also
\* when the completion is discarded as an echo or ends in the failure
\* result; it changes nothing when the completion is no object, picks
\* nothing or picks an id that is not found; records are never added,
\* removed or reordered.
C8_DecayPerCompletion ==
    [][(sched_pc = "got" /\ sched_pc' # "got") =>
          LET i == find_by_id(message_array, response_data.picked)
              picks == response_data.kind = "object" /\ i # 0
          IN  /\ Len(message_array') = Len(message_array)
              /\ \A j \in 1..Len(message_array) :
                     /\ Unweighted(message_array'[j]) = Unweighted(message_array[j])
                     /\ message_array'[j].weight =
                            IF picks /\ j = i
                            THEN IF sched_pc' = "send"
                                 THEN Mul(Mul(message_array[j].weight, SelectDecay),
                                          DispatchDecay)
                                 ELSE Mul(message_array[j].weight, SelectDecay)
                            ELSE message_array[j].weight]_vars

\* An echoing completion was discarded after its decay, in a buffer of two
\* records: the call is made again and one record has half the weight it
\* had when the invocation started.
C8_Witness ==
    /\ sched_pc = "call"
    /\ depth > 0
    /\ Len(cycle_start) >= 2
    /\ \E j \in 1..Len(cycle_start) :
           /\ message_array[j].weight = Mul(cycle_start[j].weight, SelectDecay)
           /\ \A k \in 1..Len(cycle_start) :
                  k # j => message_array[k].weight = cycle_start[k].weight

(***************************************************************************)
(* Weights.                                                                *)
(***************************************************************************)
\* C9 (weight positivity): every record of the buffer has a weight above 0.
C9_WeightPositive ==
    \A i \in 1..Len(message_array) : Positive(message_array[i].weight)

\* The multipliers by position from the newest record (1), as the table
\* of the specification lists them.
RecencyTable == << Newest1, Newest2, Newest3, Newest4 >>

C11_ShrinkEnforced ==
    [][(/\ fetch_limit.resize = 0
        /\ fetch_limit.ready = 0
        /\ \E raw \in RawMessages : accepts(raw) /\ on_message(raw))
          => Len(message_array') <= MESSAGE_MEMORY]_vars

\* C12 (rejected admin input mutates nothing): a set_memory_size with a size
\* outside 1..100 and a set_delay with min_delay < 1, max_delay > 60 or
\* min_delay >= max_delay leave MESSAGE_MEMORY, DELAY_MIN, DELAY_MAX, the
\* night-mode flag and the buffer as they were; and in every state
\* 1 <= MESSAGE_MEMORY <= 100 and 1 <= DELAY_MIN < DELAY_MAX <= 60.
C12_RejectedInputMutatesNothing ==
    /\ [](/\ 1 <= MESSAGE_MEMORY /\ MESSAGE_MEMORY <= 100
          /\ 1 <= DELAY_MIN /\ DELAY_MIN < DELAY_MAX /\ DELAY_MAX <= 60)
    /\ [][( \/ \E size \in Sizes :
                  (size < 1 \/ size > 100) /\ set_memory_size(size)
            \/ \E r \in DelayRanges :
                  (r[1] < 1 \/ r[2] > 60 \/ r[1] >= r[2]) /\ set_delay(r[1], r[2]) )
              => UNCHANGED << MESSAGE_MEMORY, DELAY_MIN, DELAY_MAX,
                              NIGHT_MODE_ENABLED, message_array >>]_vars

\* A command was rejected, valid ones have resized a buffer that holds a
\* record and set another delay range.
C12_Witness ==
    /\ rejected
    /\ MESSAGE_MEMORY = 2
    /\ DELAY_MIN = 59
    /\ message_array # <<>>

\* C13 (startup survives a prefetch timeout): however the prefetch of
\* on_ready ends, startup goes on to its status update, after which the
\* scheduler is started: on_ready does not end at the prefetch.
C13_StartupSurvivesTimeout ==
    [][(ready_pc = "history") => (ready_pc' \in {"history", "status"})]_vars

\* C14 (inbound filter invariant): the buffer holds no record by the bot
\* itself and no record whose text begins with '#'.
C14_InboundFilter ==
    \A i \in 1..Len(message_array) :
        /\ message_array[i].author # "self"
        /\ ~StartsWithPrefix(message_array[i].message)

\* A hydration has rebuilt the buffer after a reset: the channel holds a
\* message, one by the bot itself and the reset command, and the buffer
\* holds the first one again.
C14_Witness ==
    /\ Len(channel) = 3
    /\ channel[2].author = "self"
    /\ channel[3] = CommandRaw
    /\ ~rejected
    /\ MESSAGE_MEMORY = 10
    /\ Len(message_array) = 1
    /\ message_array[1].message_id = 1

(***************************************************************************)
(* Dispatch and countdown.                                                 *)
(***************************************************************************)
\* C15 (silence is never posted): the scheduler starts a send exactly when
\* the selector has returned a response whose text, trimmed, is not empty
\* and is neither "*SILENCE*" nor "*END OF CONVERSATION*"; a send starts at
\* no other step.
C15_SilenceNeverPosted ==
    [][/\ (sched_pc = "got" /\ ai_response_json' # NoResult) =>
              LET r == ai_response_json'.response
              IN  (sched_pc' = "send") <=>
                      /\ r.kind = "str"
                      /\ Strip(r.text) \notin
                             { <<>>, <<"*SILENCE*">>, <<"*END OF CONVERSATION*">> }
       /\ (sched_pc # "send" /\ sched_pc' = "send") => sched_pc = "got"]_vars

\* The selector has returned a sentinel with whitespace around it and the
\* scheduler is in its countdown.
C15_Witness ==
    /\ sched_pc = "status"
    /\ ai_response_json.response = Str(<<" ", "*SILENCE*", "\n">>)

\* The weight w after k selection decays.
RECURSIVE Halved(_, _)
Halved(w, k) == IF k = 0 THEN w ELSE Halved(Mul(w, SelectDecay), k - 1)

\* C16 (dispatch decay follows emission): when the send of a reply fails,
\* the picked record is left with the weight the selection has given it
\* (the weight at the start of the cycle, halved once per completion that
\* picked it), without the dispatch decay.
C16_DecayFollowsEmission ==
    [][(sched_pc = "send" /\ sched_pc' = "call") =>
          \A i \in 1..Len(message_array') : \A j \in 1..Len(cycle_start) :
              ( /\ i = find_by_id(message_array', ai_response_json.picked_message)
                /\ j = find_by_id(cycle_start, ai_response_json.picked_message) )
              => \E k \in 1..MaxDepth :
                     message_array'[i].weight = Halved(cycle_start[j].weight, k)]_vars

\* C17 (countdown gates dispatch): time_remaining is never negative, a tick
\* of the countdown takes it from t to max(0, t - 3), and the scheduler
\* calls the selector only when time_remaining is 0.
C17_CountdownGatesDispatch ==
    /\ [](time_remaining >= 0)
    /\ [][((sched_pc = "sleep" /\ sched_pc' # "sleep") =>
               (time_remaining' = Max(0, time_remaining - 3)))
           /\ ((sched_pc # "call" /\ sched_pc' = "call" /\ depth' = 0) =>
                  (time_remaining' = 0))]_vars

(***************************************************************************)
(* Hydration and construction.                                             *)
(***************************************************************************)
\* The newest `limit` messages of the channel without the ones by the bot
\* itself and the ones that begin with '#', oldest first, as records.
Hydrated(ch, limit) ==
    LET ids == AcceptedFrom(ch, Len(ch) - Min(limit, Len(ch)))
    IN  [ k \in 1..Len(ids) |->
            Message(ch[ids[k]].author, ch[ids[k]].content, ids[k], ch[ids[k]].reply) ]

\* C18 (hydration result): an update_message_history whose fetch has
\* delivered the history leaves the buffer equal to the history without
\* command-prefixed and self-authored messages, oldest first, also when a
\* message of the history has an empty text.
C18_HydrationResult ==
    [][set_memory_size_fetched(TRUE) =>
          message_array' = Hydrated(channel, fetch_limit.resize)]_vars

\* The weight of the construction contract: 1.0 for a human author and 0.5
\* for a bot, times 1.2 for a reply to a human.
ContractWeight(raw) ==
    LET base == IF raw.author = "human" THEN BaseHuman ELSE BaseBot
    IN  IF raw.reply = "human" THEN Mul(base, ReplyBoost) ELSE base

\* C19 (appended weight follows the construction contract): the record
\* on_message appends enters the buffer with the contract's weight,
\* whatever the message's content.
C19_AppendedWeight ==
    [][\A raw \in AppendMessages :
          (accepts(raw) /\ on_message(raw)) =>
              message_array'[Len(message_array')].weight = ContractWeight(raw)]_vars

\* C19, amended: the record enters the buffer with the contract's weight,
\* times 1.4 when bot_mention_pattern is set (on_ready has completed) and
\* the content holds the mention of the bot.
C19_AppendedWeightWithMention ==
    [][\A raw \in AppendMessages :
          (accepts(raw) /\ on_message(raw)) =>
              message_array'[Len(message_array')].weight =
                  IF bot_mention_pattern /\ Mentions(raw.content)
                  THEN Mul(ContractWeight(raw), MentionBoost)
                  ELSE ContractWeight(raw)]_vars

\* After startup a human's reply to a human that mentions the bot has
\* entered the buffer with 1.0 * 1.2 * 1.4, next to a mention from before
\* startup with the contract's weight.
C19_Witness ==
    /\ bot_mention_pattern
    /\ Len(message_array) = 2
    /\ Mentions(message_array[1].message)
    /\ message_array[1].weight = BaseBot
    /\ Mentions(message_array[2].message)
    /\ message_array[2].weight = Mul(Mul(BaseHuman, ReplyBoost), MentionBoost)

\* C20 (failure leaves weights untouched): when get_ai_response returns the
\* failure result, every record the buffer held when the invocation
\* started has the weight it had then.
C20_FailureLeavesWeights ==
    [][(sched_pc = "got" /\ ai_response_json'.picked_message.kind = "error") =>
          /\ Len(message_array') >= Len(cycle_start)
          /\ \A j \in 1..Len(cycle_start) :
                 message_array'[j].weight = cycle_start[j].weight]_vars

=============================================================================
